---- MODULE Spec2Model ----
(***************************************************************************)
(* Model of pn532_scan.py: discovery of a PN532 reader on a serial port    *)
(* (find_pn532_port), the UID poll loop (main, read_rfid_uid) and the card *)
(* classification (get_card_type).                                         *)
(*                                                                         *)
(* Python values are modelled as follows.                                  *)
(*   bytes         a sequence of integers 0..255; offset k of the source   *)
(*                 is index k+1 here (At, Slice).                          *)
(*   str           a TLA+ string, built with \o as the f-strings build it. *)
(*   None          NoneSer for the serial handle, <<>> for an optional     *)
(*                 string (<<s>> is the string s).                         *)
(*   Exception     every call on the serial collaborator either returns or *)
(*                 raises; the choice is the environment's.                *)
(*   close()       is modelled as never raising.                           *)
(* Only explicit close() calls close a transport: the model does not rely  *)
(* on finalisation of unreferenced Serial objects.                         *)
(***************************************************************************)
EXTENDS Integers, Sequences, FiniteSets, TLC

(* ----------------------------- bounds --------------------------------- *)

\* largest number of ports the enumeration returns
MaxPorts == 3

\* largest number of poll iterations explored
MaxPolls == 2

(* ------------------------- Python helpers ----------------------------- *)

NoneSer == 0

Min(a, b) == IF a < b THEN a ELSE b

\* r[off] for a bytes object r
At(r, off) == r[off + 1]

\* r[lo:hi] for a bytes object r, 0 <= lo <= hi: the slice is clamped to r
Slice(r, lo, hi) ==
    IF lo >= Min(hi, Len(r)) THEN << >> ELSE SubSeq(r, lo + 1, Min(hi, Len(r)))

HexDigits ==
    <<"0", "1", "2", "3", "4", "5", "6", "7",
      "8", "9", "A", "B", "C", "D", "E", "F">>

\* f'{b:02X}' for b in 0..255
Hex2(b) == HexDigits[(b \div 16) + 1] \o HexDigits[(b % 16) + 1]

\* f'{n}' for n >= 0
RECURSIVE Dec(_)
Dec(n) == IF n < 10 THEN HexDigits[n + 1] ELSE Dec(n \div 10) \o HexDigits[(n % 10) + 1]

\* ' '.join(f'{b:02X}' for b in bs)
RECURSIVE JoinHex(_)
JoinHex(bs) ==
    IF bs = << >> THEN ""
    ELSE IF Len(bs) = 1 THEN Hex2(bs[1])
    ELSE Hex2(bs[1]) \o " " \o JoinHex(Tail(bs))

\* sak & mask = mask, for a mask with a single bit set
BitSet(sak, mask) == (sak \div mask) % 2 = 1

\* truth value of an optional string: None and '' are false
Truthy(u) == u # << >> /\ u[1] # ""

(* --------------------------- wire frames ------------------------------ *)

READ_UID_COMMAND == <<0, 0, 255, 4, 252, 212, 74, 1, 0, 225, 0>>

wake_cmd == <<85, 85, 0, 0, 0>>

firmware_cmd == <<0, 0, 255, 2, 254, 212, 2, 42, 0>>

(* --------------------------- get_card_type ---------------------------- *)

UnknownLabel(sak, uid_length) ==
    "Unknown (SAK: 0x" \o Hex2(sak) \o ", UID Length: " \o Dec(uid_length) \o ")"

\* get_card_type with the test of line 54 moved before the one of line 50
get_card_type_PlusFirst(sak, uid_length) ==
    IF BitSet(sak, 8)
    THEN IF uid_length = 4 THEN "MIFARE Classic 1K"
         ELSE IF uid_length = 7 THEN "MIFARE Classic 4K"
         ELSE UnknownLabel(sak, uid_length)
    ELSE IF sak = 32 THEN "MIFARE Plus"
    ELSE IF BitSet(sak, 32) THEN "MIFARE DESFire or SmartMX"
    ELSE IF sak = 0 THEN "MIFARE Ultralight/NTAG"
    ELSE UnknownLabel(sak, uid_length)

get_card_type(sak, uid_length) ==
    IF BitSet(sak, 8)
    THEN IF uid_length = 4 THEN "MIFARE Classic 1K"
         ELSE IF uid_length = 7 THEN "MIFARE Classic 4K"
         ELSE UnknownLabel(sak, uid_length)
    ELSE IF BitSet(sak, 32) THEN "MIFARE DESFire or SmartMX"
    ELSE IF sak = 0 THEN "MIFARE Ultralight/NTAG"
    ELSE IF sak = 32 THEN "MIFARE Plus"
    ELSE UnknownLabel(sak, uid_length)

(* ------------------- read_rfid_uid: the parsing part ------------------ *)

\* the length check with the bound one too small
Incomplete_OffByOne(r) == Len(r) < 19

\* length check of line 22
Incomplete(r) == Len(r) < 20

\* ParseTarget with the UID taken from offset 12, the length byte included
ParseTarget_UidFromLengthByte(r) ==
    IF Incomplete(r)
    THEN [uid |-> << >>, card_type |-> << >>]
    ELSE LET uid_len   == At(r, 12)
             uid_bytes == Slice(r, 12, 12 + uid_len)
             uid_str   == JoinHex(uid_bytes)
         IN  [uid       |-> <<uid_str>>,
              card_type |-> IF Len(r) >= 12
                            THEN <<get_card_type(At(r, 11), uid_len)>>
                            ELSE << >>]

\* what read_rfid_uid does with the bytes it has read: the value returned
\* (uid) and the card type it prints on the way (<<>> when none is printed)
ParseTarget(r) ==
    IF Incomplete(r)
    THEN [uid |-> << >>, card_type |-> << >>]
    ELSE LET uid_len   == At(r, 12)
             uid_bytes == Slice(r, 13, 13 + uid_len)
             uid_str   == JoinHex(uid_bytes)
         IN  [uid       |-> <<uid_str>>,
              card_type |-> IF Len(r) >= 12
                            THEN <<get_card_type(At(r, 11), uid_len)>>
                            ELSE << >>]

(* --------------- find_pn532_port: the recognition test ---------------- *)

\* the recognition test without the comparison of offset 6
Recognized_HeaderByteOnly(r) == Len(r) >= 10 /\ At(r, 5) = 213

\* line 105
Recognized(r) == Len(r) >= 10 /\ At(r, 5) = 213 /\ At(r, 6) = 3

\* the offsets of r that the test of line 105 indexes: `and` evaluates its
\* right operand only when the left one is true
RecognizedIndexes(r) ==
    IF Len(r) >= 10
    THEN IF At(r, 5) = 213 THEN {5, 6} ELSE {5}
    ELSE {}

\* lines 107-110: the version bytes of a recognized response and the line
\* printed from them
FirmwareVersion(r) ==
    [ic_version  |-> At(r, 7),
     fw_version  |-> At(r, 8),
     fw_revision |-> At(r, 9),
     printed     |-> "Firmware version: " \o Dec(At(r, 8)) \o "." \o Dec(At(r, 9))]


(* ------------------------ the environment's inputs -------------------- *)

\* the transport opened from sys.argv[1]; the ports of the enumeration are
\* 1..MaxPorts
ArgvPort == MaxPorts + 1

Transports == 1 .. ArgvPort

\* a response of n bytes in the layout of an InListPassiveTarget answer:
\* sak at offset 11, the UID length at offset 12, the UID from offset 13
TargetFrame(n, sak, uid_len, uid_bytes) ==
    [i \in 1 .. n |->
        IF i = 12 THEN sak
        ELSE IF i = 13 THEN uid_len
        ELSE IF i > 13 /\ i - 13 <= Len(uid_bytes) THEN uid_bytes[i - 13]
        ELSE 0]

\* what ser.read(20) may return during the probe
ProbeResponses ==
    { << >>,                                         \* timeout, no byte
      <<0, 0, 255, 2, 254, 213, 3, 50, 1, 6>>,       \* D5 03 at offsets 5, 6
      <<0, 0, 255, 2, 254, 213, 3, 50, 1>>,          \* the same, one byte short
      <<0, 0, 255, 2, 254, 212, 3, 50, 1, 6>>,       \* offset 5 differs
      <<0, 0, 255, 2, 254, 213, 2, 50, 1, 6, 0, 0>>  \* offset 6 differs
    }

\* what ser.read(64) may return during a poll
TargetResponses ==
    { << >>,                                              \* no card yet
      TargetFrame(19, 8, 4, <<222, 173, 190, 239>>),      \* one byte short
      TargetFrame(25, 8, 4, <<222, 173, 190, 239>>),      \* Classic 1K
      TargetFrame(20, 0, 7, <<4, 17, 34, 51, 68, 85, 102>>), \* Ultralight
      TargetFrame(20, 8, 0, << >>),                       \* UID length 0
      TargetFrame(20, 32, 10, <<1, 2, 3, 4, 5, 6, 7>>)    \* length overruns
    }

\* the exit status of an interpreter that ends on an uncaught
\* KeyboardInterrupt: 1, or 128 + SIGINT where it re-raises the signal
UncaughtInterruptStatus == {1, 130}

(* ------------------------------- state -------------------------------- *)

VARIABLES
    argv_port,        \* sys.argv[1], NoneSer when no argument is given
    available_ports,  \* the enumeration of find_pn532_port
    pc,               \* position of the program
    idx,              \* position of the for loop in available_ports
    ser,              \* main's ser
    port_ser,         \* find_pn532_port's ser
    response,         \* the bytes last read
    firmware,         \* <<>>, or the version bytes taken from a recognized response
    uid,              \* main's uid: what read_rfid_uid returned last
    card_type,        \* the card type last printed
    is_open,          \* the transports that are open
    opens,            \* the ports find_pn532_port called serial.Serial on
    outcomes,         \* how the attempt on each of these ports ended
    io,               \* the calls issued in the current probe or poll
    printed,          \* how often a UID, a card type, a read error was printed
    polls,            \* poll iterations started
    poll_reads,       \* per finished iteration: the number of bytes its read
                      \* returned, RAISED when a call of the iteration raised
    closes,           \* close() calls per transport
    exit_status,      \* <<>> while running, then <<status>>
    ended_by          \* why the process ended

vars ==
    <<argv_port, available_ports, pc, idx, ser, port_ser, response, firmware, uid,
      card_type, is_open, opens, outcomes, io, printed, polls, poll_reads,
      closes, exit_status, ended_by>>

RAISED == 0 - 1

ScanPcs == {"try_port", "probe_reset", "probe_wake", "probe_firmware", "probe_read"}

PollPcs == {"poll_reset", "poll_write", "poll_read", "poll_sleep"}

Init ==
    /\ argv_port \in {NoneSer, ArgvPort}
    /\ available_ports \in {[i \in 1 .. n |-> i] : n \in 0 .. MaxPorts}
    /\ pc = "main"
    /\ idx = 0
    /\ ser = NoneSer
    /\ port_ser = NoneSer
    /\ response = << >>
    /\ firmware = << >>
    /\ uid = << >>
    /\ card_type = << >>
    /\ is_open = {}
    /\ opens = << >>
    /\ outcomes = << >>
    /\ io = << >>
    /\ printed = [uid |-> 0, card_type |-> 0, error |-> 0]
    /\ polls = 0
    /\ poll_reads = << >>
    /\ closes = [t \in Transports |-> 0]
    /\ exit_status = << >>
    /\ ended_by = "running"

Call(t, op, arg) == [t |-> t, op |-> op, arg |-> arg]

\* ser.close() on transport t
Close(t) ==
    /\ is_open' = is_open \ {t}
    /\ closes' = [closes EXCEPT ![t] = @ + 1]

\* lines 140-143: find_pn532_port returned None
ExitNoDevice ==
    /\ pc' = "exited"
    /\ exit_status' = <<1>>
    /\ ended_by' = "no_device"

(* ------------------------------- main --------------------------------- *)

\* line 127 false, then line 138
MainNoArgument ==
    /\ pc = "main"
    /\ argv_port = NoneSer
    /\ pc' = "find"
    /\ UNCHANGED <<firmware, argv_port, available_ports, idx, ser, port_ser, response,
                   uid, card_type, is_open, opens, outcomes, io, printed,
                   polls, poll_reads, closes, exit_status, ended_by>>

\* MainOpenSpecified without the test of line 138: the scan runs even when
\* the port of the command line has opened
MainOpenSpecified_AlwaysScans ==
    /\ pc = "main"
    /\ argv_port # NoneSer
    /\ \/ /\ ser' = argv_port
          /\ is_open' = is_open \cup {argv_port}
       \/ UNCHANGED <<ser, is_open>>
    /\ pc' = "find"
    /\ UNCHANGED <<firmware, argv_port, available_ports, idx, port_ser, response, uid,
                   card_type, opens, outcomes, io, printed, polls, poll_reads,
                   closes, exit_status, ended_by>>

\* lines 127-138: the port of the command line is opened; on success it is
\* the transport polled, on an error the scan runs
MainOpenSpecified ==
    /\ pc = "main"
    /\ argv_port # NoneSer
    /\ \/ /\ ser' = argv_port
          /\ is_open' = is_open \cup {argv_port}
          /\ pc' = "poll_reset"
       \/ /\ pc' = "find"
          /\ UNCHANGED <<ser, is_open>>
    /\ UNCHANGED <<firmware, argv_port, available_ports, idx, port_ser, response, uid,
                   card_type, opens, outcomes, io, printed, polls, poll_reads,
                   closes, exit_status, ended_by>>

(* -------------------------- find_pn532_port --------------------------- *)

\* FindStart without the test of line 66: the loop body is entered at once
FindStart_NoEmptyCheck ==
    /\ pc = "find"
    /\ idx' = 1
    /\ pc' = "try_port"
    /\ UNCHANGED <<firmware, argv_port, available_ports, ser, port_ser, response, uid,
                   card_type, is_open, opens, outcomes, io, printed, polls,
                   poll_reads, closes, exit_status, ended_by>>

\* lines 63-76: enumerate; an empty enumeration returns None at once
FindStart ==
    /\ pc = "find"
    /\ IF available_ports = << >>
       THEN ExitNoDevice /\ idx' = idx
       ELSE /\ idx' = 1
            /\ pc' = "try_port"
            /\ UNCHANGED <<exit_status, ended_by>>
    /\ UNCHANGED <<firmware, argv_port, available_ports, ser, port_ser, response, uid,
                   card_type, is_open, opens, outcomes, io, printed, polls,
                   poll_reads, closes>>

\* the for loop of line 76 goes on: the next port, or lines 119-120 and 140-143
NextPort ==
    IF idx < Len(available_ports)
    THEN /\ idx' = idx + 1
         /\ pc' = "try_port"
         /\ UNCHANGED <<exit_status, ended_by>>
    ELSE ExitNoDevice /\ idx' = idx

\* PortRaised with a return in the except clause: the first error ends the scan
PortRaised_Fatal(outcome) ==
    /\ outcomes' = Append(outcomes, outcome)
    /\ ExitNoDevice
    /\ UNCHANGED <<idx, is_open, closes>>

\* lines 116-117: an Exception raised in the try of line 80 is printed and the
\* loop goes on; nothing is closed
PortRaised(outcome) ==
    /\ outcomes' = Append(outcomes, outcome)
    /\ NextPort
    /\ UNCHANGED <<is_open, closes>>

\* lines 77-82, and 116-117 when serial.Serial raises
TryPortOpen ==
    /\ pc = "try_port"
    /\ opens' = Append(opens, available_ports[idx])
    /\ io' = << >>
    /\ \/ /\ port_ser' = available_ports[idx]
          /\ is_open' = is_open \cup {available_ports[idx]}
          /\ pc' = "probe_reset"
          /\ UNCHANGED <<idx, outcomes, closes, exit_status, ended_by>>
       \/ /\ PortRaised("open_error")
          /\ port_ser' = port_ser
    /\ UNCHANGED <<firmware, argv_port, available_ports, ser, response, uid, card_type,
                   printed, polls, poll_reads>>

\* one call of the probe that is not the read: it returns and the probe goes
\* on at `then`, or it raises
ProbeCall(at, op, arg, then) ==
    /\ pc = at
    /\ io' = Append(io, Call(port_ser, op, arg))
    /\ \/ /\ pc' = then
          /\ UNCHANGED <<idx, outcomes, is_open, closes, exit_status, ended_by>>
       \/ PortRaised("io_error")
    /\ UNCHANGED <<firmware, argv_port, available_ports, ser, port_ser, response, uid,
                   card_type, opens, printed, polls, poll_reads>>

\* line 85
ProbeReset == ProbeCall("probe_reset", "reset_input_buffer", << >>, "probe_wake")

\* lines 87-89
ProbeWake == ProbeCall("probe_wake", "write", wake_cmd, "probe_firmware")

\* ProbeFirmware sending the wake preamble a second time instead of the query
ProbeFirmware_WakeAgain == ProbeCall("probe_firmware", "write", wake_cmd, "probe_read")

\* lines 92-99
ProbeFirmware == ProbeCall("probe_firmware", "write", firmware_cmd, "probe_read")

\* PortFound without the return of line 111: the transport is remembered and
\* the loop goes on
PortFound_KeepsScanning ==
    /\ outcomes' = Append(outcomes, "recognized")
    /\ firmware' = <<FirmwareVersion(response')>>
    /\ ser' = port_ser
    /\ NextPort
    /\ UNCHANGED <<is_open, closes>>

\* lines 105-111: the response is recognized, the open transport is returned
\* to main, which enters the poll loop with it
PortFound ==
    /\ outcomes' = Append(outcomes, "recognized")
    /\ firmware' = <<FirmwareVersion(response')>>
    /\ ser' = port_ser
    /\ pc' = "poll_reset"
    /\ UNCHANGED <<idx, is_open, closes, exit_status, ended_by>>

\* PortRejected without the close of line 113
PortRejected_NoClose ==
    /\ outcomes' = Append(outcomes, "not_recognized")
    /\ NextPort
    /\ UNCHANGED <<ser, firmware, is_open, closes>>

\* lines 113-114: the response is not recognized, the transport is closed
\* and the loop goes on
PortRejected ==
    /\ outcomes' = Append(outcomes, "not_recognized")
    /\ Close(port_ser)
    /\ NextPort
    /\ UNCHANGED <<ser, firmware>>

\* lines 102-117: the read and the recognition test
ProbeRead ==
    /\ pc = "probe_read"
    /\ io' = Append(io, Call(port_ser, "read", <<20>>))
    /\ \/ \E r \in ProbeResponses :
            /\ response' = r
            /\ IF Recognized(r) THEN PortFound ELSE PortRejected
       \/ /\ PortRaised("io_error")
          /\ UNCHANGED <<ser, response, firmware>>
    /\ UNCHANGED <<argv_port, available_ports, port_ser, uid, card_type, opens,
                   printed, polls, poll_reads>>

\* KeyboardInterrupt before the try of line 147: no handler catches it, the
\* interpreter ends with the traceback and no close() is called
InterruptOutsideTry ==
    /\ pc \in {"main", "find"} \cup ScanPcs
    /\ pc' = "exited"
    /\ ended_by' = "uncaught_interrupt"
    /\ \E s \in UncaughtInterruptStatus : exit_status' = <<s>>
    /\ UNCHANGED <<firmware, argv_port, available_ports, idx, ser, port_ser, response,
                   uid, card_type, is_open, opens, outcomes, io, printed,
                   polls, poll_reads, closes>>

(* ------------------- the poll loop: main, read_rfid_uid --------------- *)

\* ReadFailed with the exception let through to main: the error is printed,
\* the finally clause closes the transport and the run ends
ReadFailed_Fatal ==
    /\ poll_reads' = Append(poll_reads, RAISED)
    /\ printed' = [printed EXCEPT !.error = @ + 1]
    /\ uid' = << >>
    /\ Close(ser)
    /\ pc' = "exited"
    /\ exit_status' = <<1>>
    /\ ended_by' = "read_error"

\* lines 38-40, then lines 151 and 155: the error is printed, read_rfid_uid
\* returns None and main sleeps before the next iteration
ReadFailed ==
    /\ poll_reads' = Append(poll_reads, RAISED)
    /\ printed' = [printed EXCEPT !.error = @ + 1]
    /\ uid' = << >>
    /\ pc' = "poll_sleep"
    /\ UNCHANGED <<is_open, closes, exit_status, ended_by>>

\* lines 149, 150, 17: an iteration starts with the input buffer cleared
PollReset ==
    /\ pc = "poll_reset"
    /\ polls < MaxPolls
    /\ polls' = polls + 1
    /\ io' = <<Call(ser, "reset_input_buffer", << >>)>>
    /\ \/ /\ pc' = "poll_write"
          /\ UNCHANGED <<uid, printed, poll_reads, is_open, closes,
                         exit_status, ended_by>>
       \/ ReadFailed
    /\ UNCHANGED <<firmware, argv_port, available_ports, idx, ser, port_ser, response,
                   card_type, opens, outcomes>>

\* PollWrite sending the firmware query instead of READ_UID_COMMAND
PollWrite_WrongFrame ==
    /\ pc = "poll_write"
    /\ io' = Append(io, Call(ser, "write", firmware_cmd))
    /\ \/ /\ pc' = "poll_read"
          /\ UNCHANGED <<uid, printed, poll_reads, is_open, closes,
                         exit_status, ended_by>>
       \/ ReadFailed
    /\ UNCHANGED <<firmware, argv_port, available_ports, idx, ser, port_ser,
                   response, card_type, opens, outcomes, polls>>

\* lines 18-19
PollWrite ==
    /\ pc = "poll_write"
    /\ io' = Append(io, Call(ser, "write", READ_UID_COMMAND))
    /\ \/ /\ pc' = "poll_read"
          /\ UNCHANGED <<uid, printed, poll_reads, is_open, closes,
                         exit_status, ended_by>>
       \/ ReadFailed
    /\ UNCHANGED <<firmware, argv_port, available_ports, idx, ser, port_ser, response,
                   card_type, opens, outcomes, polls>>

\* CardDetected without the break of line 154: the UID is printed and the
\* loop goes on
CardDetected_NoBreak ==
    /\ pc' = "poll_sleep"
    /\ UNCHANGED <<is_open, closes, exit_status, ended_by>>

\* lines 151-154 and 158-159: main got a true uid, prints it, leaves the loop,
\* closes the transport and returns
CardDetected ==
    /\ Close(ser)
    /\ pc' = "exited"
    /\ exit_status' = <<0>>
    /\ ended_by' = "card"

\* lines 151 and 155: the uid is None or empty, main sleeps and loops
NoCardYet ==
    /\ pc' = "poll_sleep"
    /\ UNCHANGED <<is_open, closes, exit_status, ended_by>>

\* lines 20-36 and 151-155: the read, the parsing and main's test of the result
PollRead ==
    /\ pc = "poll_read"
    /\ io' = Append(io, Call(ser, "read", <<64>>))
    /\ \/ \E r \in TargetResponses :
            LET parsed == ParseTarget(r) IN
            /\ response' = r
            /\ poll_reads' = Append(poll_reads, Len(r))
            /\ uid' = parsed.uid
            /\ card_type' = IF parsed.card_type # << >> THEN parsed.card_type
                            ELSE card_type
            /\ printed' =
                 [printed EXCEPT
                    !.card_type = IF parsed.card_type # << >> THEN @ + 1 ELSE @,
                    !.uid = IF Truthy(parsed.uid) THEN @ + 1 ELSE @]
            /\ IF Truthy(parsed.uid) THEN CardDetected ELSE NoCardYet
       \/ /\ ReadFailed
          /\ UNCHANGED <<response, card_type>>
    /\ UNCHANGED <<firmware, argv_port, available_ports, idx, ser, port_ser, opens,
                   outcomes, polls>>

\* line 155 ends, line 149 loops
PollSleep ==
    /\ pc = "poll_sleep"
    /\ pc' = "poll_reset"
    /\ UNCHANGED <<firmware, argv_port, available_ports, idx, ser, port_ser, response,
                   uid, card_type, is_open, opens, outcomes, io, printed,
                   polls, poll_reads, closes, exit_status, ended_by>>

\* lines 156-159: KeyboardInterrupt inside the try of line 147
InterruptInPoll ==
    /\ pc \in PollPcs
    /\ Close(ser)
    /\ pc' = "exited"
    /\ exit_status' = <<0>>
    /\ ended_by' = "interrupt"
    /\ UNCHANGED <<firmware, argv_port, available_ports, idx, ser, port_ser, response,
                   uid, card_type, opens, outcomes, io, printed, polls,
                   poll_reads>>

(* --------------------------- specification ---------------------------- *)

Next ==
    \/ MainNoArgument
    \/ MainOpenSpecified
    \/ FindStart
    \/ TryPortOpen
    \/ ProbeReset
    \/ ProbeWake
    \/ ProbeFirmware
    \/ ProbeRead
    \/ InterruptOutsideTry
    \/ PollReset
    \/ PollWrite
    \/ PollRead
    \/ PollSleep
    \/ InterruptInPoll

Spec == Init /\ [][Next]_vars

\* the interpreter goes on executing the program: a step that is possible is
\* eventually taken (the program is sequential and every call returns or
\* raises within the transport's timeout)
LiveSpec == Init /\ [][Next]_vars /\ WF_vars(Next)

TypeOK ==
    /\ argv_port \in {NoneSer, ArgvPort}
    /\ pc \in {"main", "find", "exited"} \cup ScanPcs \cup PollPcs
    /\ idx \in 0 .. MaxPorts
    /\ ser \in {NoneSer} \cup Transports
    /\ port_ser \in {NoneSer} \cup Transports
    /\ is_open \subseteq Transports
    /\ polls \in 0 .. MaxPolls
    /\ ended_by \in {"running", "no_device", "card", "interrupt", "uncaught_interrupt"}
    /\ exit_status \in {<< >>, <<0>>, <<1>>, <<130>>}

(* ------------------------------ the scan ------------------------------ *)

Last(q) == q[Len(q)]

\* the step appends the outcome o of the attempt on the current port
Ends(o) == Len(outcomes') = Len(outcomes) + 1 /\ Last(outcomes') = o

\* C1: during a scan every transport of a port that is not selected is closed
\* before the next port is opened and before the scan returns, whatever made
\* the port fail; so at most one transport is open at any moment of the scan
\* and none is open when the scan has returned None.
C1_UnselectedClosed ==
    /\ pc = "try_port" => is_open = {}
    /\ pc \in ScanPcs => Cardinality(is_open) <= 1
    /\ ended_by = "no_device" => is_open = {}

\* C2: the scan is linear and the first success wins: the ports opened are a
\* prefix of the enumeration (in its order, each once); a recognized port is
\* the last one opened, its transport is what main gets and the scan is over;
\* a transport returned by the scan belongs to the first recognized port.
C2_FirstSuccessWins ==
    /\ opens = SubSeq(available_ports, 1, Len(opens))
    /\ Len(outcomes) <= Len(opens)
    /\ \A i \in 1 .. Len(outcomes) :
          outcomes[i] = "recognized" =>
             /\ i = Len(opens)
             /\ ser = available_ports[i]
             /\ pc \notin {"find"} \cup ScanPcs
    /\ ser \in 1 .. MaxPorts =>
          /\ outcomes # << >>
          /\ Last(outcomes) = "recognized"
          /\ ser = available_ports[Len(outcomes)]
          /\ \A j \in 1 .. Len(outcomes) - 1 : outcomes[j] # "recognized"

\* the second of three ports was recognized after the first had failed, and
\* the run is over with the third never opened
C2_Witness ==
    /\ pc = "exited"
    /\ Len(available_ports) = 3
    /\ outcomes = <<"not_recognized", "recognized">>
    /\ opens = <<1, 2>>
    /\ ser = 2

\* C3: a port that opens and whose probe read returns an unrecognized
\* response (0 bytes on a timeout included) has its transport closed in that
\* step, and the scan proceeds to the next port of the enumeration (or ends
\* with None after the last).
C3_UnrecognizedClosedThenNext ==
    [][(pc = "probe_read" /\ Ends("not_recognized")) =>
          /\ ~Recognized(response')
          /\ port_ser \in is_open
          /\ port_ser \notin is_open'
          /\ closes'[port_ser] = closes[port_ser] + 1
          /\ IF idx < Len(available_ports)
             THEN pc' = "try_port" /\ idx' = idx + 1
             ELSE pc' = "exited" /\ ended_by' = "no_device"]_vars

\* the first port timed out (0 bytes), was closed, and the second is next
C3_Witness ==
    /\ pc = "try_port"
    /\ idx = 2
    /\ response = << >>
    /\ outcomes = <<"not_recognized">>
    /\ closes[1] = 1
    /\ is_open = {}

\* C4: with an empty enumeration find_pn532_port returns None at once: the
\* loop is never entered, serial.Serial is never called by the scan and no
\* port of the enumeration is open; the run ends with no device.
C4_EmptyEnumeration ==
    available_ports = << >> =>
       /\ opens = << >>
       /\ outcomes = << >>
       /\ pc \notin ScanPcs
       /\ is_open \subseteq {argv_port} \ {NoneSer}
       /\ (pc = "exited" /\ ser = NoneSer) =>
             ended_by \in {"no_device", "uncaught_interrupt"}

\* the scan ran on an empty enumeration and reported no device
C4_Witness ==
    /\ available_ports = << >>
    /\ ended_by = "no_device"
    /\ exit_status = <<1>>
    /\ opens = << >>

\* C5: a failure on a port (open error, error during the probe, unrecognized
\* response) is not fatal: the scan goes on with the next port, and after the
\* last port it has opened every port of the enumeration once, in order, and
\* returns None.
C5_FailuresNotFatal ==
    [][(Len(outcomes') = Len(outcomes) + 1 /\ Last(outcomes') # "recognized") =>
          IF idx < Len(available_ports)
          THEN /\ pc' = "try_port"
               /\ idx' = idx + 1
               /\ ended_by' = "running"
          ELSE /\ pc' = "exited"
               /\ ended_by' = "no_device"
               /\ exit_status' = <<1>>
               /\ opens' = available_ports
               /\ Len(outcomes') = Len(available_ports)
               /\ ser' = NoneSer]_vars

\* three ports failed in the three ways and the scan reported no device
C5_Witness ==
    /\ ended_by = "no_device"
    /\ opens = available_ports
    /\ outcomes = <<"open_error", "io_error", "not_recognized">>

(* ------------------------------- main --------------------------------- *)

\* C6: the process ends with status 1 exactly when discovery yields no
\* device, and with status 0 when the run ends by a successful UID read or by
\* a user interrupt.
C6_ExitStatus ==
    pc = "exited" =>
       /\ exit_status = <<1>> <=> ended_by = "no_device"
       /\ ended_by \in {"card", "interrupt", "uncaught_interrupt"} =>
             exit_status = <<0>>

\* C7: the port of the command line is tried first: when it is given and
\* opens, no scan runs and its transport is the one polled; when it is absent
\* or does not open, find_pn532_port runs.
C7_SpecifiedPortFirst ==
    /\ [](ser = ArgvPort =>
            /\ argv_port = ArgvPort
            /\ opens = << >>
            /\ pc \in PollPcs \cup {"exited"})
    /\ [](pc \in PollPcs =>
            /\ ser \in is_open
            /\ \A k \in 1 .. Len(io) : io[k].t = ser)
    /\ [][(pc = "main" /\ ended_by' = "running") =>
            IF is_open' # is_open
            THEN /\ argv_port = ArgvPort
                 /\ is_open' = {ArgvPort}
                 /\ ser' = ArgvPort
                 /\ pc' = "poll_reset"
            ELSE /\ ser' = NoneSer
                 /\ pc' = "find"]_vars

\* the port of the command line opened and is being polled, with ports in
\* the enumeration that were never opened
C7_Witness ==
    /\ ser = ArgvPort
    /\ pc = "poll_read"
    /\ Len(available_ports) >= 1
    /\ opens = << >>
    /\ io = <<Call(ArgvPort, "reset_input_buffer", << >>),
              Call(ArgvPort, "write", READ_UID_COMMAND)>>

(* ---------------------------- the poll loop --------------------------- *)

\* C8: the first response of at least 20 bytes stops the polling, the UID and
\* the card type are each surfaced exactly once over the run, and no card
\* type is surfaced by an iteration after which polling continues.
C8_CardSurfacedOnce ==
    /\ pc \in PollPcs => printed.uid = 0 /\ printed.card_type = 0
    /\ ended_by = "card" => printed.uid = 1 /\ printed.card_type = 1

\* every finished iteration so far read fewer than 20 bytes
OnlyShortReads == \A i \in 1 .. Len(poll_reads) : poll_reads[i] \in 0 .. 19

\* C9: as long as every iteration's read returns fewer than 20 bytes, no
\* error, no UID and no card type is surfaced, the transport stays open and
\* the loop goes on: such an iteration ends in the sleep, the sleep is followed
\* by the next iteration, and the loop is left only by an interrupt.
C9_ShortReadsRetry ==
    /\ []((OnlyShortReads /\ ser # NoneSer) =>
            /\ printed = [uid |-> 0, card_type |-> 0, error |-> 0]
            /\ uid = << >>
            /\ pc = "exited" => ended_by = "interrupt"
            /\ pc # "exited" => pc \in PollPcs /\ ser \in is_open)
    /\ [][(pc = "poll_read" /\ Len(poll_reads') = Len(poll_reads) + 1
                            /\ Last(poll_reads') \in 0 .. 19) =>
            pc' = "poll_sleep"]_vars
    /\ [][pc = "poll_sleep" => pc' = "poll_reset" \/ ended_by' = "interrupt"]_vars

\* two iterations read 0 and 19 bytes and the loop is about to go on
C9_Witness ==
    /\ pc = "poll_sleep"
    /\ Len(poll_reads) >= 2
    /\ OnlyShortReads
    /\ \E i, j \in 1 .. Len(poll_reads) : poll_reads[i] = 0 /\ poll_reads[j] = 19

\* C10, as claimed: an error raised by reset_input_buffer, write or read
\* during polling is fatal, the poll loop terminates instead of retrying.
C10_FailureIsFatal == printed.error > 0 => pc \notin PollPcs

\* C10, amended: such an error is surfaced (one error message per failing
\* iteration) but is not fatal: read_rfid_uid returns None, nothing is closed,
\* no UID and no card type is surfaced, and the loop sleeps and retries.
C10_FailureSurfacedThenRetry ==
    /\ [][(Len(poll_reads') = Len(poll_reads) + 1 /\ Last(poll_reads') = RAISED) =>
            /\ printed' = [printed EXCEPT !.error = @ + 1]
            /\ uid' = << >>
            /\ is_open' = is_open
            /\ closes' = closes
            /\ ended_by' = "running"
            /\ pc' = "poll_sleep"]_vars
    /\ [][printed'.error # printed.error =>
            Len(poll_reads') = Len(poll_reads) + 1 /\ Last(poll_reads') = RAISED]_vars
    /\ [](pc = "poll_sleep" => ENABLED PollSleep)

\* a call raised in the first iteration and the second iteration is under way
C10_Witness ==
    /\ pc = "poll_write"
    /\ polls = 2
    /\ poll_reads = <<RAISED>>
    /\ printed.error = 1
    /\ ser \in is_open

(* ----------------------------- interrupts ----------------------------- *)

\* the transport the program is working on: the one being probed or polled
InUse ==
    IF pc \in PollPcs THEN ser
    ELSE IF pc \in ScanPcs \ {"try_port"} THEN port_ser
    ELSE NoneSer

\* C11: when an interrupt arrives while a transport is open, during the probe
\* of a port or during the poll loop, that transport is closed before the
\* program terminates and no call is issued on it after the interrupt.
C11_InterruptCloses ==
    [][(ended_by = "running" /\ ended_by' \in {"interrupt", "uncaught_interrupt"}) =>
          /\ InUse \notin is_open'
          /\ io' = io
          /\ pc' = "exited"]_vars

(* ----------------------------- recognition ---------------------------- *)

\* C12: a response is recognized if and only if it has at least 10 bytes,
\* 0xD5 at offset 5 and 0x03 at offset 6; the version bytes are then those at
\* offsets 7, 8 and 9; a response of fewer than 10 bytes is not recognized
\* and the test indexes no offset outside the response.
C12_RecognitionRule ==
    [][(pc = "probe_read" /\ Len(outcomes') = Len(outcomes) + 1
                          /\ Last(outcomes') \in {"recognized", "not_recognized"}) =>
          LET r == response' IN
          /\ Last(outcomes') = "recognized" <=>
                (Len(r) >= 10 /\ r[6] = 213 /\ r[7] = 3)
          /\ Last(outcomes') = "recognized" =>
                /\ firmware'[1].ic_version = r[8]
                /\ firmware'[1].fw_version = r[9]
                /\ firmware'[1].fw_revision = r[10]
          /\ Last(outcomes') = "not_recognized" => firmware' = firmware
          /\ Len(r) < 10 => Last(outcomes') = "not_recognized"
          /\ \A o \in RecognizedIndexes(r) : o < Len(r)]_vars

\* the response 00 00 FF 02 FE D5 03 32 01 06 was recognized as IC 0x32,
\* firmware 1.6, after a response one byte short had been rejected
C12_Witness ==
    /\ pc = "poll_reset"
    /\ outcomes = <<"not_recognized", "recognized">>
    /\ response = <<0, 0, 255, 2, 254, 213, 3, 50, 1, 6>>
    /\ firmware = <<[ic_version |-> 50, fw_version |-> 1, fw_revision |-> 6,
                     printed |-> "Firmware version: 1.6"]>>
    /\ closes[1] = 1

(* --------------------------- target responses ------------------------- *)

\* the step is a poll read that returned bytes (now in response')
ReadReturned ==
    /\ pc = "poll_read"
    /\ Len(poll_reads') = Len(poll_reads) + 1
    /\ Last(poll_reads') # RAISED

\* C13: read_rfid_uid returns no card for a response of fewer than 20 bytes
\* and surfaces nothing from it; for a response of at least 20 bytes with
\* 13 + uidLength within the response, the UID returned is the bytes at
\* offsets 13 .. 13 + uidLength - 1 (two hex digits each, separated by
\* spaces) and the card type printed is the classification of the byte at
\* offset 11 and uidLength.
C13_TargetParsing ==
    /\ [][ReadReturned =>
            LET r == response' IN
            /\ Len(r) = Last(poll_reads')
            /\ Len(r) < 20 =>
                  /\ uid' = << >>
                  /\ printed' = printed
                  /\ card_type' = card_type
                  /\ pc' = "poll_sleep"
            /\ (Len(r) >= 20 /\ 13 + r[13] <= Len(r)) =>
                  /\ uid' = <<JoinHex([i \in 1 .. r[13] |-> r[13 + i]])>>
                  /\ card_type' = <<get_card_type(r[12], r[13])>>
                  /\ printed'.card_type = printed.card_type + 1]_vars
    /\ []((ended_by = "card" /\ Len(response) = 25 /\ response[12] = 8
              /\ SubSeq(response, 13, 17) = <<4, 222, 173, 190, 239>>) =>
            /\ uid = <<"DE AD BE EF">>
            /\ card_type = <<"MIFARE Classic 1K">>)

\* after a response of 19 bytes gave no card, the 25 byte response with
\* sak 0x08 and the UID DE AD BE EF was read
C13_Witness ==
    /\ ended_by = "card"
    /\ poll_reads = <<19, 25>>
    /\ uid = <<"DE AD BE EF">>
    /\ card_type = <<"MIFARE Classic 1K">>
    /\ printed = [uid |-> 1, card_type |-> 1, error |-> 0]

\* C14: a response of at least 20 bytes whose uidLength makes 13 + uidLength
\* exceed the bytes received is not reported as a card: no UID shortened to
\* the bytes available is returned as a successful read.
C14_NoSilentTruncation ==
    (/\ poll_reads # << >>
     /\ Last(poll_reads) >= 20
     /\ Len(response) = Last(poll_reads)
     /\ 13 + response[13] > Len(response)) =>
        /\ ~Truthy(uid)
        /\ printed.uid = 0
        /\ ended_by # "card"

(* ------------------------------ get_card_type ------------------------- *)

\* the inputs of the classification: a response of 20 bytes for every byte
\* at offset 11 (sak) and every byte at offset 12 (the UID length)
ClassifyInit ==
    /\ argv_port = NoneSer
    /\ available_ports = << >>
    /\ pc = "classify"
    /\ idx = 0
    /\ ser = NoneSer
    /\ port_ser = NoneSer
    /\ response \in {TargetFrame(20, sak, n, << >>) : sak \in 0 .. 255, n \in 0 .. 255}
    /\ firmware = << >>
    /\ uid = << >>
    /\ card_type = << >>
    /\ is_open = {}
    /\ opens = << >>
    /\ outcomes = << >>
    /\ io = << >>
    /\ printed = [uid |-> 0, card_type |-> 0, error |-> 0]
    /\ polls = 0
    /\ poll_reads = << >>
    /\ closes = [t \in Transports |-> 0]
    /\ exit_status = << >>
    /\ ended_by = "running"

\* lines 32-34: the call of get_card_type on the bytes at offsets 11 and 12
Classify ==
    /\ pc = "classify"
    /\ card_type' = <<get_card_type(At(response, 11), At(response, 12))>>
    /\ pc' = "classified"
    /\ UNCHANGED <<firmware, argv_port, available_ports, idx, ser, port_ser,
                   response, uid, is_open, opens, outcomes, io, printed, polls,
                   poll_reads, closes, exit_status, ended_by>>

ClassifySpec == ClassifyInit /\ [][Classify]_vars

\* C15: for every sak in 0..255 and every UID length, get_card_type gives the
\* first match of: bit 0x08 set -> 'MIFARE Classic 1K' for length 4, 'MIFARE
\* Classic 4K' for length 7, the fallback label otherwise; bit 0x20 set ->
\* 'MIFARE DESFire or SmartMX'; sak 0 -> 'MIFARE Ultralight/NTAG'; anything
\* else -> the fallback label with sak in hex and the length in decimal.
\* 'MIFARE Plus' is the result for no input.
C15_CardTypeRule ==
    pc = "classified" =>
       LET sak      == response[12]
           n        == response[13]
           fallback == "Unknown (SAK: 0x" \o Hex2(sak) \o ", UID Length: "
                          \o Dec(n) \o ")"
           label    == card_type[1]
       IN  /\ Len(card_type) = 1
           /\ label # "MIFARE Plus"
           /\ IF sak % 16 >= 8
              THEN label = (IF n = 4 THEN "MIFARE Classic 1K"
                            ELSE IF n = 7 THEN "MIFARE Classic 4K"
                            ELSE fallback)
              ELSE IF sak % 64 >= 32 THEN label = "MIFARE DESFire or SmartMX"
              ELSE IF sak = 0 THEN label = "MIFARE Ultralight/NTAG"
              ELSE label = fallback
           /\ (sak = 153 /\ n = 3) => label = "Unknown (SAK: 0x99, UID Length: 3)"
           /\ (sak = 64 /\ n = 210) => label = "Unknown (SAK: 0x40, UID Length: 210)"

\* sak 0x20, the only input of the 'MIFARE Plus' branch, was classified as
\* DESFire
C15_Witness ==
    /\ pc = "classified"
    /\ response[12] = 32
    /\ response[13] = 7
    /\ card_type = <<"MIFARE DESFire or SmartMX">>

(* --------------------------- call sequences --------------------------- *)

\* q is a prefix of the sequence full
IsPrefix(q, full) == Len(q) <= Len(full) /\ q = SubSeq(full, 1, Len(q))

\* the three calls of a poll iteration on transport t
PollCalls(t) ==
    <<[t |-> t, op |-> "reset_input_buffer", arg |-> << >>],
      [t |-> t, op |-> "write", arg |-> <<0, 0, 255, 4, 252, 212, 74, 1, 0, 225, 0>>],
      [t |-> t, op |-> "read", arg |-> <<64>>]>>

\* C16, as claimed: every poll iteration performs exactly one clear, one
\* write of 00 00 FF 04 FC D4 4A 01 00 E1 00 and one read of up to 64 bytes,
\* in this order.
C16_EveryIterationComplete == pc = "poll_sleep" => io = PollCalls(ser)

\* C16, amended: the calls of a poll iteration are, in this order, one clear,
\* one write of the 11 byte literal and one read of up to 64 bytes on the
\* selected transport, cut after the first call that raises; an iteration in
\* which no call raises issues all three; nothing else is written; the next
\* iteration's clear comes only after the previous iteration has ended.
C16_PollCallOrder ==
    /\ []((pc \in PollPcs /\ polls >= 1) =>
            /\ io # << >>
            /\ IsPrefix(io, PollCalls(ser))
            /\ pc = "poll_write" => Len(io) = 1
            /\ pc = "poll_read" => Len(io) = 2
            /\ (pc \in {"poll_sleep", "poll_reset"} /\ Last(poll_reads) # RAISED) =>
                  io = PollCalls(ser))
    /\ [](ended_by = "card" => io = PollCalls(ser))
    /\ [][polls' # polls =>
            /\ pc = "poll_reset"
            /\ polls' = polls + 1
            /\ Len(poll_reads) = polls
            /\ io' = <<PollCalls(ser)[1]>>]_vars

\* the first iteration was cut short by a call that raised, the second
\* issued its three calls
C16_Witness ==
    /\ pc = "poll_sleep"
    /\ poll_reads = <<RAISED, 0>>
    /\ io = PollCalls(ser)

\* the four calls of the probe on transport t
ProbeCalls(t) ==
    <<[t |-> t, op |-> "reset_input_buffer", arg |-> << >>],
      [t |-> t, op |-> "write", arg |-> <<85, 85, 0, 0, 0>>],
      [t |-> t, op |-> "write", arg |-> <<0, 0, 255, 2, 254, 212, 2, 42, 0>>],
      [t |-> t, op |-> "read", arg |-> <<20>>]>>

\* the attempt on the port opened last has ended and io still holds its calls
ProbeEnded ==
    /\ polls = 0
    /\ outcomes # << >>
    /\ Len(outcomes) = Len(opens)

\* C17, as claimed: for every port whose open succeeds the probe issues one
\* clear, one write of 55 55 00 00 00, one write of 00 00 FF 02 FE D4 02 2A 00
\* and one read of up to 20 bytes, in this order.
C17_EveryProbeComplete ==
    (ProbeEnded /\ Last(outcomes) # "open_error") => io = ProbeCalls(Last(opens))

\* C17, amended: the calls of the probe of a port are, in this order, one
\* clear, the wake write, the firmware query write and one read of up to 20
\* bytes, cut after the first call that raises; a probe in which no call
\* raises issues all four, once (no retry, no second clear); a port that does
\* not open gets no call.
C17_ProbeCallOrder ==
    /\ [](pc \in ScanPcs \ {"try_port"} =>
            /\ port_ser = Last(opens)
            /\ IsPrefix(io, ProbeCalls(port_ser))
            /\ pc = "probe_reset" => Len(io) = 0
            /\ pc = "probe_wake" => Len(io) = 1
            /\ pc = "probe_firmware" => Len(io) = 2
            /\ pc = "probe_read" => Len(io) = 3)
    /\ [](ProbeEnded =>
            /\ Last(outcomes) \in {"recognized", "not_recognized"} =>
                  io = ProbeCalls(Last(opens))
            /\ Last(outcomes) = "io_error" =>
                  io # << >> /\ IsPrefix(io, ProbeCalls(Last(opens)))
            /\ Last(outcomes) = "open_error" => io = << >>)
    /\ [](opens = SubSeq(available_ports, 1, Len(opens)))

\* the probe of the first port was cut short by a call that raised, the
\* probe of the second issued its four calls and was not recognized
C17_Witness ==
    /\ pc = "try_port"
    /\ idx = 3
    /\ outcomes = <<"io_error", "not_recognized">>
    /\ io = ProbeCalls(2)
    /\ is_open = {1}

(* ------------------------ ownership of transports --------------------- *)

\* C18: the poll loop is only entered with a confirmed transport, one on
\* which the probe has run and was recognized, on every path through main.
C18_PolledTransportConfirmed ==
    pc \in PollPcs =>
       /\ outcomes # << >>
       /\ Last(outcomes) = "recognized"
       /\ ser = Last(opens)
       /\ firmware # << >>

\* C19: the transport a successful scan returns is open and is the only one
\* the scan leaves open; once in the poll loop main closes it exactly once on
\* every exit from the loop; no call is issued on a transport that has been
\* closed.
C19_TransportLifecycle ==
    /\ [][Ends("recognized") =>
            /\ ser' = port_ser
            /\ is_open' = {port_ser}]_vars
    /\ [](pc \in PollPcs => ser \in is_open /\ closes[ser] = 0)
    /\ []((pc = "exited" /\ ser # NoneSer) => ser \notin is_open /\ closes[ser] = 1)
    /\ [][(io' # io /\ io' # << >>) => Last(io').t \in is_open]_vars

(* ------------------------------ termination --------------------------- *)

\* the read of the last iteration returned at least 20 bytes with a UID
\* length that is not 0
GoodRead ==
    /\ poll_reads # << >>
    /\ Last(poll_reads) >= 20
    /\ Len(response) = Last(poll_reads)
    /\ response[13] # 0

\* the poll loop has ended on a card: the UID is printed, the transport is
\* closed
Terminated ==
    /\ pc = "exited"
    /\ ended_by = "card"
    /\ exit_status = <<0>>
    /\ Truthy(uid)
    /\ printed.uid = 1
    /\ ser \notin is_open
    /\ closes[ser] = 1

\* C20: once a read of the poll loop returns at least 20 bytes with a UID
\* length that is not 0, the loop terminates with the UID reported and the
\* transport closed, and no further poll iteration is issued.
C20_GoodReadTerminates ==
    /\ GoodRead ~> [](Terminated /\ Len(poll_reads) = polls)
    /\ [][ended_by = "card" => polls' = polls /\ io' = io]_vars

\* a card was read in the second iteration, after an iteration without one
C20_Witness ==
    /\ GoodRead
    /\ Terminated
    /\ poll_reads = <<0, 20>>
    /\ uid = <<"04 11 22 33 44 55 66">>

====
